---- MODULE Spec2Model ----
(***************************************************************************)
(* Model of MainLoopState::poll (src/src/main_loop.rs), the supervisory    *)
(* loop of spotifyd.  One Iteration action is one pass through the body of *)
(* `loop { ... }`; the polled sources (discovery stream, connect future,   *)
(* ctrl-c stream, spirc task, player event channel, hook child process)    *)
(* change between passes through the environment actions.                  *)
(***************************************************************************)
EXTENDS Naturals, Sequences, FiniteSets

\* Number of credential sets the discovery stream produces.
MaxCreds == 1
\* Number of playback events the player emits.
MaxEvents == 2
\* Number of interrupt notifications delivered to the ctrl-c stream.
MaxInterrupts == 2

VARIABLES
    \* LibreSpotConnection
    connection,            \* [state, creds]: the boxed connect future
    spirc_task,            \* Option<SpircTask>: 0 = None, else the task's number
    spirc,                 \* Option<Rc<Spirc>>: 0 = None, else the handle's number
    discovery_stream,      \* credential sets the stream has ready, oldest first
    \* SpotifydState
    ctrl_c_stream,         \* interrupt notifications not yet taken
    shutting_down,
    player_event_channel,  \* [some, queue]: Option<UnboundedReceiver<PlayerEvent>>
    player_event_program,  \* Option<String>: TRUE = Some(program)
    dbus_mpris_server,     \* Option<Box<Future>>: TRUE = Some
    \* MainLoopState
    running_event_program, \* Option<Child>: 0 = None, else the event it was spawned for
    \* build and position
    dbus_feature,          \* cfg(feature = "dbus_mpris")
    status,                \* "running" | "suspended" | "done" | "aborted"
    log,                   \* what the latest pass through the loop body did
    \* environment
    finished,              \* spirc tasks that have run to completion
    live_procs,            \* hook processes (by event) the OS still runs
    discovered,            \* credential sets produced so far
    emitted,               \* playback events emitted so far
    interrupts,            \* interrupt notifications delivered so far
    \* history
    spirc_shutdowns,       \* shutdown() calls on the held Spirc, by trigger
    ctrl_c_shutdowns,      \* shutdown() calls made by the ctrl-c branch, in all
    retrieved,             \* events taken from the channel, in order
    spawned,               \* events passed to run_program_on_events, in order
    last_creds,            \* latest credential set taken from the stream, 0 = none
    wired,                 \* wired[h] = credentials of the session of handle h
    live_connects          \* connect operations started and neither resolved nor dropped

vars == <<connection, spirc_task, spirc, discovery_stream, ctrl_c_stream,
          shutting_down, player_event_channel, player_event_program,
          dbus_mpris_server, running_event_program, dbus_feature, status,
          log, finished, live_procs, discovered, emitted,
          interrupts, spirc_shutdowns, ctrl_c_shutdowns, retrieved, spawned,
          last_creds, wired, live_connects>>

Sources == {"discovery", "events", "connection", "ctrl_c", "spirc_task"}

\* futures::future::empty(): never ready, never fails.
EmptyFuture == [state |-> "empty", creds |-> 0]

\* Session::connect(session_config, creds, cache, handle): a pending connect.
SessionConnect(creds) == [state |-> "pending", creds |-> creds]

\* What one pass through the loop body did; a pass starts from this record:
\* the fields as it found them, nothing polled, nothing done yet.
NewLog(s) ==
    [spirc0         |-> s.spirc,
     task0          |-> s.spirc_task,
     child0         |-> s.running_event_program,
     shutting_down0 |-> s.shutting_down,
     shutdowns0     |-> s.spirc_shutdowns,
     shutdown_by    |-> {},
     creds    |-> 0,
     try_wait |-> "none",
     dbus     |-> "none",
     event    |-> 0,
     polled   |-> <<>>,
     parked   |-> {},
     effects  |-> <<>>,
     branch   |-> "none"]

\* The loop's fields and the histories, as one record the steps transform;
\* log is what the pass has done so far, err names the source whose poll
\* returns Err in this pass, if any.
Cur ==
    [connection            |-> connection,
     spirc_task            |-> spirc_task,
     spirc                 |-> spirc,
     discovery_stream      |-> discovery_stream,
     ctrl_c_stream         |-> ctrl_c_stream,
     shutting_down         |-> shutting_down,
     player_event_channel  |-> player_event_channel,
     dbus_mpris_server     |-> dbus_mpris_server,
     running_event_program |-> running_event_program,
     status                |-> status,
     live_procs            |-> live_procs,
     finished              |-> finished,
     spirc_shutdowns       |-> spirc_shutdowns,
     ctrl_c_shutdowns      |-> ctrl_c_shutdowns,
     retrieved             |-> retrieved,
     spawned               |-> spawned,
     last_creds            |-> last_creds,
     wired                 |-> wired,
     live_connects         |-> live_connects,
     log                   |-> log,
     err                   |-> "none"]

Effect(op, arg) == [op |-> op, arg |-> arg]

\* A poll of `src` that returned Ready: recorded, the task is not parked on it.
Polled(s, src) == [s EXCEPT !.log.polled = Append(@, src)]

\* A poll of `src` that returned NotReady: the task is parked on the source.
Parked(s, src) ==
    [s EXCEPT !.log.polled = Append(@, src), !.log.parked = @ \cup {src}]

\* Panic that is caught: the loop returns NotReady instead of aborting.
PanicReturnsNotReady(s, src) ==
    [Polled(s, src) EXCEPT !.status = "suspended", !.log.branch = "panic"]

\* poll().unwrap() on an Err: the thread panics, the pass stops where it is.
Panic(s, src) ==
    [Polled(s, src) EXCEPT !.status = "aborted", !.log.branch = "panic"]

\* A Spirc nobody has asked to shut down.
NoShutdowns == [credentials |-> 0, ctrl_c |-> 0]

\* spirc.shutdown(): fire-and-forget request to handle h.
SpircShutdown(s, h, by) ==
    [s EXCEPT !.spirc_shutdowns[by] = @ + 1,
              !.ctrl_c_shutdowns = IF by = "ctrl_c" THEN @ + 1 ELSE @,
              !.log.shutdown_by = @ \cup {by},
              !.log.effects = Append(@, Effect("shutdown", h))]

\* CredentialStep with the connect started before the held Spirc is shut down.
CredentialStepConnectFirst(s) ==
    IF s.err = "discovery" THEN Panic(s, "discovery")
    ELSE IF s.discovery_stream = <<>> THEN Parked(s, "discovery")
    ELSE
        LET creds == Head(s.discovery_stream)
            s1 == [Polled(s, "discovery") EXCEPT
                      !.discovery_stream = Tail(@),
                      !.connection = SessionConnect(creds),
                      !.live_connects =
                          (IF s.connection.state = "empty"
                           THEN @ ELSE @ \ {s.connection.creds}) \cup {creds},
                      !.last_creds = creds,
                      !.log.creds = creds,
                      !.log.effects = Append(@, Effect("connect", creds))]
        IN  IF s1.spirc # 0
            THEN SpircShutdown(s1, s1.spirc, "credentials")
            ELSE s1

\* CredentialStep that take()s the held Spirc out of the field to shut it down.
CredentialStepTakesSpirc(s) ==
    IF s.err = "discovery" THEN Panic(s, "discovery")
    ELSE IF s.discovery_stream = <<>> THEN Parked(s, "discovery")
    ELSE
        LET creds == Head(s.discovery_stream)
            s1 == Polled(s, "discovery")
            s2 == IF s1.spirc # 0
                  THEN [SpircShutdown(s1, s1.spirc, "credentials") EXCEPT
                           !.spirc = 0]
                  ELSE s1
        IN  [s2 EXCEPT
                !.discovery_stream = Tail(@),
                !.connection = SessionConnect(creds),
                !.live_connects =
                    (IF s.connection.state = "empty"
                     THEN @ ELSE @ \ {s.connection.creds}) \cup {creds},
                !.last_creds = creds,
                !.log.creds = creds,
                !.log.effects = Append(@, Effect("connect", creds))]

\* CredentialStep that leaves an outstanding connect in place.
CredentialStepKeepsPending(s) ==
    IF s.err = "discovery" THEN Panic(s, "discovery")
    ELSE IF s.discovery_stream = <<>> THEN Parked(s, "discovery")
    ELSE
        LET creds == Head(s.discovery_stream)
            s1 == Polled(s, "discovery")
            s2 == IF s1.spirc # 0
                  THEN SpircShutdown(s1, s1.spirc, "credentials")
                  ELSE s1
            s3 == [s2 EXCEPT !.discovery_stream = Tail(@),
                             !.last_creds = creds,
                             !.log.creds = creds]
        IN  IF s.connection.state = "empty"
            THEN [s3 EXCEPT
                     !.connection = SessionConnect(creds),
                     !.live_connects = @ \cup {creds},
                     !.log.effects = Append(@, Effect("connect", creds))]
            ELSE s3

\* Lines 105-116: take a credential set if the discovery stream has one; shut
\* the held Spirc down and replace the connect future by a new connect.
CredentialStep(s) ==
    IF s.err = "discovery" THEN Panic(s, "discovery")
    ELSE IF s.discovery_stream = <<>> THEN Parked(s, "discovery")
    ELSE
        LET creds == Head(s.discovery_stream)
            s1 == Polled(s, "discovery")
            s2 == IF s1.spirc # 0
                  THEN SpircShutdown(s1, s1.spirc, "credentials")
                  ELSE s1
        IN  [s2 EXCEPT
                !.discovery_stream = Tail(@),
                !.connection = SessionConnect(creds),
                !.live_connects =
                    (IF s.connection.state = "empty"
                     THEN @ ELSE @ \ {s.connection.creds}) \cup {creds},
                !.last_creds = creds,
                !.log.creds = creds,
                !.log.effects = Append(@, Effect("connect", creds))]

\* child.try_wait(): Err when the call fails, else Ok(None) for a process that
\* still runs and Ok(Some(status)) for one that has exited.
TryWait(s, fail) ==
    IF fail THEN "Err"
    ELSE IF s.running_event_program \in s.live_procs THEN "OkNone"
    ELSE "OkSome"

\* Lines 118-122: take() the child and put it back only on Ok(None).
ExitCheck(s, fail) ==
    IF s.running_event_program = 0 THEN s
    ELSE
        LET r == TryWait(s, fail)
        IN  [s EXCEPT !.running_event_program = IF r = "OkNone" THEN @ ELSE 0,
                      !.log.try_wait = r]

\* run_program_on_events(event, program): spawns the hook process.
RunProgramOnEvents(s, event) ==
    [s EXCEPT !.running_event_program = event,
              !.live_procs = @ \cup {event},
              !.spawned = Append(@, event),
              !.log.effects = Append(@, Effect("spawn", event))]

\* EventStep that takes the newest event of the channel instead of the oldest.
EventStepNewestFirst(s) ==
    IF s.running_event_program # 0 \/ ~s.player_event_channel.some THEN s
    ELSE IF s.err = "events" THEN Panic(s, "events")
    ELSE IF s.player_event_channel.queue = <<>> THEN Parked(s, "events")
    ELSE
        LET q == s.player_event_channel.queue
            event == q[Len(q)]
            s1 == [Polled(s, "events") EXCEPT
                      !.player_event_channel.queue = SubSeq(q, 1, Len(q) - 1),
                      !.retrieved = Append(@, event),
                      !.log.event = event]
        IN  IF player_event_program THEN RunProgramOnEvents(s1, event) ELSE s1

\* Lines 123-133: with no child stored, take the next event and spawn for it.
EventStep(s) ==
    IF s.running_event_program # 0 \/ ~s.player_event_channel.some THEN s
    ELSE IF s.err = "events" THEN Panic(s, "events")
    ELSE IF s.player_event_channel.queue = <<>> THEN Parked(s, "events")
    ELSE
        LET event == Head(s.player_event_channel.queue)
            s1 == [Polled(s, "events") EXCEPT
                      !.player_event_channel.queue = Tail(@),
                      !.retrieved = Append(@, event),
                      !.log.event = event]
        IN  IF player_event_program THEN RunProgramOnEvents(s1, event) ELSE s1

\* Lines 118-133: the hook process supervisor.
HookStep(s, fail) == EventStep(ExitCheck(s, fail))

\* DbusStep with `fut.poll().unwrap()`: an Err outcome panics.
DbusStepUnwraps(s, outcome) ==
    IF ~s.dbus_mpris_server THEN s
    ELSE IF outcome = "err"
        THEN [Panic(s, "dbus") EXCEPT !.log.dbus = outcome]
    ELSE [s EXCEPT !.log.polled = Append(@, "dbus"), !.log.dbus = outcome]

\* Lines 135-137: poll the control server; `let _ =` drops the outcome.
DbusStep(s, outcome) ==
    IF s.dbus_mpris_server
    THEN [s EXCEPT !.log.polled = Append(@, "dbus"), !.log.dbus = outcome]
    ELSE s

\* Wiring that leaves the resolved connect future in place.
WiringKeepsConnect(s) ==
    LET h == Len(s.wired) + 1
    IN  [s EXCEPT
            !.player_event_channel = [some |-> TRUE, queue |-> <<>>],
            !.spirc_task = h,
            !.finished = @ \ {s.spirc_task},
            !.spirc = h,
            !.spirc_shutdowns = NoShutdowns,
            !.wired = Append(@, s.connection.creds),
            !.dbus_mpris_server = dbus_feature,
            !.log.effects = Append(@, Effect("wire", h)),
            !.log.branch = "connect"]

\* Wiring that stores the new Spirc but keeps a spirc task already stored.
WiringKeepsTask(s) ==
    LET h == Len(s.wired) + 1
    IN  [s EXCEPT
            !.connection = EmptyFuture,
            !.live_connects = @ \ {s.connection.creds},
            !.player_event_channel = [some |-> TRUE, queue |-> <<>>],
            !.spirc_task = IF @ = 0 THEN h ELSE @,
            !.spirc = h,
            !.spirc_shutdowns = NoShutdowns,
            !.wired = Append(@, s.connection.creds),
            !.dbus_mpris_server = dbus_feature,
            !.log.effects = Append(@, Effect("wire", h)),
            !.log.branch = "connect"]

\* Lines 140-174: the connect future resolved to a session; build the player
\* and the Spirc pair and store them.
Wiring(s) ==
    LET h == Len(s.wired) + 1
    IN  [s EXCEPT
            !.connection = EmptyFuture,
            !.live_connects = @ \ {s.connection.creds},
            !.player_event_channel = [some |-> TRUE, queue |-> <<>>],
            !.spirc_task = h,
            !.finished = @ \ {s.spirc_task},
            !.spirc = h,
            !.spirc_shutdowns = NoShutdowns,
            !.wired = Append(@, s.connection.creds),
            !.dbus_mpris_server = dbus_feature,
            !.log.effects = Append(@, Effect("wire", h)),
            !.log.branch = "connect"]

\* CtrlC without the shutting_down guard.
CtrlCUnguarded(s) ==
    LET s1 == [s EXCEPT !.ctrl_c_stream = @ - 1, !.log.branch = "ctrl_c"]
    IN  IF s1.spirc # 0
        THEN [SpircShutdown(s1, s1.spirc, "ctrl_c") EXCEPT
                 !.shutting_down = TRUE]
        ELSE [s1 EXCEPT !.status = "done"]

\* CtrlC that sets the flag and waits even when no Spirc is held.
CtrlCWaitsWithoutSpirc(s) ==
    LET s1 == [s EXCEPT !.ctrl_c_stream = @ - 1, !.log.branch = "ctrl_c"]
    IN  IF ~s1.shutting_down
        THEN IF s1.spirc # 0
             THEN [SpircShutdown(s1, s1.spirc, "ctrl_c") EXCEPT
                      !.shutting_down = TRUE]
             ELSE [s1 EXCEPT !.shutting_down = TRUE]
        ELSE s1

\* CtrlC that returns Ready right after asking the held Spirc to shut down.
CtrlCQuitsAtOnce(s) ==
    LET s1 == [s EXCEPT !.ctrl_c_stream = @ - 1, !.log.branch = "ctrl_c"]
    IN  IF ~s1.shutting_down
        THEN IF s1.spirc # 0
             THEN [SpircShutdown(s1, s1.spirc, "ctrl_c") EXCEPT
                      !.shutting_down = TRUE, !.status = "done"]
             ELSE [s1 EXCEPT !.status = "done"]
        ELSE s1

\* Lines 176-183: an interrupt notification was taken from the ctrl-c stream.
CtrlC(s) ==
    LET s1 == [s EXCEPT !.ctrl_c_stream = @ - 1, !.log.branch = "ctrl_c"]
    IN  IF ~s1.shutting_down
        THEN IF s1.spirc # 0
             THEN [SpircShutdown(s1, s1.spirc, "ctrl_c") EXCEPT
                      !.shutting_down = TRUE]
             ELSE [s1 EXCEPT !.status = "done"]
        ELSE s1

\* Line 190: the spirc task is complete.
SpircTaskDone(s) == [s EXCEPT !.status = "done", !.log.branch = "spirc_task"]

\* Line 192: nothing was ready.  The task stays parked on the sources whose
\* poll returned NotReady in this pass.
NotReady(s) ==
    [s EXCEPT !.status = "suspended", !.log.branch = "not_ready"]

\* Select that polls the ctrl-c stream before the connect future.
SelectCtrlCFirst(s) ==
    IF s.err = "ctrl_c" THEN Panic(s, "ctrl_c")
    ELSE IF s.ctrl_c_stream > 0 THEN CtrlC(Polled(s, "ctrl_c"))
    ELSE
        LET s1 == Parked(s, "ctrl_c")
        IN  IF s1.err = "connection" /\ s1.connection.state = "pending"
                THEN Panic(s1, "connection")
            ELSE IF s1.connection.state = "ready"
                THEN Wiring(Polled(s1, "connection"))
            ELSE
                LET s2 == Parked(s1, "connection")
                IN  IF s2.spirc_task = 0 THEN NotReady(s2)
                    ELSE IF s2.err = "spirc_task"
                        THEN Panic(s2, "spirc_task")
                    ELSE IF s2.spirc_task \in s2.finished
                        THEN SpircTaskDone(Polled(s2, "spirc_task"))
                    ELSE NotReady(Parked(s2, "spirc_task"))

\* Lines 139-193: the if / else-if chain; the first ready source wins.
Select(s) ==
    IF s.err = "connection" /\ s.connection.state = "pending"
        THEN Panic(s, "connection")
    ELSE IF s.connection.state = "ready" THEN Wiring(Polled(s, "connection"))
    ELSE
        LET s1 == Parked(s, "connection")
        IN  IF s1.err = "ctrl_c" THEN Panic(s1, "ctrl_c")
            ELSE IF s1.ctrl_c_stream > 0 THEN CtrlC(Polled(s1, "ctrl_c"))
            ELSE
                LET s2 == Parked(s1, "ctrl_c")
                IN  IF s2.spirc_task = 0 THEN NotReady(s2)
                    ELSE IF s2.err = "spirc_task"
                        THEN Panic(s2, "spirc_task")
                    ELSE IF s2.spirc_task \in s2.finished
                        THEN SpircTaskDone(Polled(s2, "spirc_task"))
                    ELSE NotReady(Parked(s2, "spirc_task"))

\* Lines 104-194: one pass through the body of the loop.
LoopBody(s, err, fail, outcome) ==
    LET s0 == [s EXCEPT !.err = err, !.log = NewLog(s)]
        s1 == CredentialStep(s0)
        s2 == IF s1.status = "aborted" THEN s1 ELSE HookStep(s1, fail)
        s3 == IF s2.status = "aborted" THEN s2 ELSE DbusStep(s2, outcome)
    IN  IF s3.status = "aborted" THEN s3 ELSE Select(s3)

Install(t) ==
    /\ connection' = t.connection
    /\ spirc_task' = t.spirc_task
    /\ spirc' = t.spirc
    /\ discovery_stream' = t.discovery_stream
    /\ ctrl_c_stream' = t.ctrl_c_stream
    /\ shutting_down' = t.shutting_down
    /\ player_event_channel' = t.player_event_channel
    /\ dbus_mpris_server' = t.dbus_mpris_server
    /\ running_event_program' = t.running_event_program
    /\ status' = t.status
    /\ log' = t.log
    /\ live_procs' = t.live_procs
    /\ finished' = t.finished
    /\ spirc_shutdowns' = t.spirc_shutdowns
    /\ ctrl_c_shutdowns' = t.ctrl_c_shutdowns
    /\ retrieved' = t.retrieved
    /\ spawned' = t.spawned
    /\ last_creds' = t.last_creds
    /\ wired' = t.wired
    /\ live_connects' = t.live_connects

\* try_wait is called, and can fail, only when a child is stored.
TryWaitInputs == IF running_event_program # 0 THEN BOOLEAN ELSE {FALSE}

\* The control server is polled only when one is stored.
DbusInputs ==
    IF dbus_mpris_server THEN {"ready", "not_ready", "err"} ELSE {"none"}

\* The source whose poll returns Err in a pass, if any.
ErrInputs == Sources \cup {"none"}

\* The loop runs one pass.  Inputs: the source whose poll returns Err (if
\* any), whether try_wait fails, and the control server's poll outcome.
Iteration ==
    /\ status = "running"
    /\ log.branch = "none"
    /\ \E err \in ErrInputs, fail \in TryWaitInputs, outcome \in DbusInputs :
           Install(LoopBody(Cur, err, fail, outcome))
    /\ UNCHANGED <<player_event_program, dbus_feature, discovered, emitted,
                   interrupts>>

\* Line 104: a pass that neither returned nor panicked is over and the body
\* of `loop` starts again.
Loop ==
    /\ status = "running"
    /\ log.branch # "none"
    /\ log' = NewLog(Cur)
    /\ UNCHANGED <<connection, spirc_task, spirc, discovery_stream,
                   ctrl_c_stream, shutting_down, player_event_channel,
                   player_event_program, dbus_mpris_server,
                   running_event_program, dbus_feature, status,
                   finished, live_procs, discovered, emitted, interrupts,
                   spirc_shutdowns, ctrl_c_shutdowns, retrieved, spawned,
                   last_creds, wired, live_connects>>

\* The record of the latest pass is kept until the environment moves on; from
\* then on only the sources the task is parked on matter.
Forget ==
    [NewLog(Cur) EXCEPT
        !.parked = IF status = "suspended" THEN log.parked ELSE {}]

\* The loop has not terminated.
Alive == status \in {"running", "suspended"}

\* The credential source produces the next credential set.
Discover ==
    /\ Alive
    /\ discovered < MaxCreds
    /\ discovered' = discovered + 1
    /\ discovery_stream' = Append(discovery_stream, discovered + 1)
    /\ log' = Forget
    /\ UNCHANGED <<connection, spirc_task, spirc, ctrl_c_stream, shutting_down,
                   player_event_channel, player_event_program,
                   dbus_mpris_server, running_event_program, dbus_feature,
                   status, finished, live_procs, emitted,
                   interrupts, spirc_shutdowns, ctrl_c_shutdowns, retrieved, spawned,
                   last_creds, wired, live_connects>>

\* The pending connect resolves to a session.
ConnectResolves ==
    /\ Alive
    /\ connection.state = "pending"
    /\ connection' = [connection EXCEPT !.state = "ready"]
    /\ log' = Forget
    /\ UNCHANGED <<spirc_task, spirc, discovery_stream, ctrl_c_stream,
                   shutting_down, player_event_channel, player_event_program,
                   dbus_mpris_server, running_event_program, dbus_feature,
                   status, finished, live_procs, discovered,
                   emitted, interrupts, spirc_shutdowns, ctrl_c_shutdowns, retrieved, spawned,
                   last_creds, wired, live_connects>>

\* An interrupt notification arrives on the ctrl-c stream.
Interrupt ==
    /\ Alive
    /\ interrupts < MaxInterrupts
    /\ interrupts' = interrupts + 1
    /\ ctrl_c_stream' = ctrl_c_stream + 1
    /\ log' = Forget
    /\ UNCHANGED <<connection, spirc_task, spirc, discovery_stream,
                   shutting_down, player_event_channel, player_event_program,
                   dbus_mpris_server, running_event_program, dbus_feature,
                   status, finished, live_procs, discovered,
                   emitted, spirc_shutdowns, ctrl_c_shutdowns, retrieved, spawned, last_creds,
                   wired, live_connects>>

\* The stored spirc task runs to completion.
SpircTaskFinishes ==
    /\ Alive
    /\ spirc_task # 0
    /\ spirc_task \notin finished
    /\ finished' = finished \cup {spirc_task}
    /\ log' = Forget
    /\ UNCHANGED <<connection, spirc_task, spirc, discovery_stream,
                   ctrl_c_stream, shutting_down, player_event_channel,
                   player_event_program, dbus_mpris_server,
                   running_event_program, dbus_feature, status, live_procs, discovered, emitted, interrupts,
                   spirc_shutdowns, ctrl_c_shutdowns, retrieved, spawned, last_creds, wired,
                   live_connects>>

\* The player sends the next playback event into the stored channel.
EmitEvent ==
    /\ Alive
    /\ player_event_channel.some
    /\ emitted < MaxEvents
    /\ emitted' = emitted + 1
    /\ player_event_channel' =
           [player_event_channel EXCEPT !.queue = Append(@, emitted + 1)]
    /\ log' = Forget
    /\ UNCHANGED <<connection, spirc_task, spirc, discovery_stream,
                   ctrl_c_stream, shutting_down, player_event_program,
                   dbus_mpris_server, running_event_program, dbus_feature,
                   status, finished, live_procs, discovered,
                   interrupts, spirc_shutdowns, ctrl_c_shutdowns, retrieved, spawned,
                   last_creds, wired, live_connects>>

\* A hook process exits.
ProcessExits ==
    /\ Alive
    /\ \E e \in live_procs : live_procs' = live_procs \ {e}
    /\ log' = Forget
    /\ UNCHANGED <<connection, spirc_task, spirc, discovery_stream,
                   ctrl_c_stream, shutting_down, player_event_channel,
                   player_event_program, dbus_mpris_server,
                   running_event_program, dbus_feature, status, finished, discovered, emitted, interrupts,
                   spirc_shutdowns, ctrl_c_shutdowns, retrieved, spawned, last_creds, wired,
                   live_connects>>

\* What a poll of `src` would find.
SourceReady(src) ==
    \/ src = "discovery" /\ discovery_stream # <<>>
    \/ src = "events" /\ player_event_channel.queue # <<>>
    \/ src = "connection" /\ connection.state = "ready"
    \/ src = "ctrl_c" /\ ctrl_c_stream > 0
    \/ src = "spirc_task" /\ spirc_task \in finished

\* The executor polls the suspended loop again: a source the task is parked
\* on became ready, or the control server's task notified it.
Wake ==
    /\ status = "suspended"
    /\ \/ \E src \in log.parked : SourceReady(src)
       \/ dbus_mpris_server
    /\ status' = "running"
    /\ log' = NewLog(Cur)
    /\ UNCHANGED <<connection, spirc_task, spirc, discovery_stream,
                   ctrl_c_stream, shutting_down, player_event_channel,
                   player_event_program, dbus_mpris_server,
                   running_event_program, dbus_feature,
                   finished, live_procs, discovered, emitted, interrupts,
                   spirc_shutdowns, ctrl_c_shutdowns, retrieved, spawned, last_creds, wired,
                   live_connects>>

\* LibreSpotConnection::new and the fields of the three structs as the loop
\* is first polled: no Spirc pair, no channel, no child, any connect future.
Init ==
    /\ connection \in {EmptyFuture, SessionConnect(0)}
    /\ spirc_task = 0
    /\ spirc = 0
    /\ discovery_stream = <<>>
    /\ ctrl_c_stream = 0
    /\ shutting_down = FALSE
    /\ player_event_channel = [some |-> FALSE, queue |-> <<>>]
    /\ player_event_program \in BOOLEAN
    /\ dbus_mpris_server = FALSE
    /\ running_event_program = 0
    /\ dbus_feature \in BOOLEAN
    /\ status = "running"
    /\ log = NewLog([spirc |-> 0, spirc_task |-> 0,
                     running_event_program |-> 0, shutting_down |-> FALSE,
                     spirc_shutdowns |-> NoShutdowns])
    /\ finished = {}
    /\ live_procs = {}
    /\ discovered = 0
    /\ emitted = 0
    /\ interrupts = 0
    /\ spirc_shutdowns = NoShutdowns
    /\ ctrl_c_shutdowns = 0
    /\ retrieved = <<>>
    /\ spawned = <<>>
    /\ last_creds = 0
    /\ wired = <<>>
    /\ live_connects = IF connection.state = "pending" THEN {0} ELSE {}

Next ==
    \/ Iteration
    \/ Loop
    \/ Wake
    \/ Discover
    \/ ConnectResolves
    \/ Interrupt
    \/ SpircTaskFinishes
    \/ EmitEvent
    \/ ProcessExits

Spec == Init /\ [][Next]_vars

\* The effects of the latest pass that are shutdown requests.
IsShutdown(e) == e.op = "shutdown"
ShutdownsIn(l) == SelectSeq(l.effects, IsShutdown)

\* Shutdown requests a Spirc has received, given its counts by trigger.
Requests(c) == c.credentials + c.ctrl_c

\* Shutdown requests the held Spirc has received.
HeldShutdowns == Requests(spirc_shutdowns)

----------------------------------------------------------------------------
\* C1: every Spirc handle receives at most one shutdown request from the
\* loop, the credential step and the ctrl-c branch counted together.
AtMostOneShutdownPerSpirc == HeldShutdowns <= 1

\* C2: the ctrl-c branch requests a shutdown at most once; once it has done so
\* and set shutting_down, no pass issues another ctrl-c shutdown request,
\* however many notifications it takes, and shutting_down stays true.
InterruptShutdownOnce ==
    /\ ctrl_c_shutdowns <= 1
    /\ shutting_down <=> ctrl_c_shutdowns = 1
    /\ log.shutting_down0 =>
           /\ shutting_down
           /\ "ctrl_c" \notin log.shutdown_by

\* C2 witness: the ctrl-c branch asked the held Spirc to shut down, a later
\* pass took a second notification, and the loop is still waiting.
SecondInterruptTaken ==
    /\ log.shutting_down0
    /\ log.branch = "ctrl_c"
    /\ interrupts = 2
    /\ ctrl_c_stream = 0
    /\ ctrl_c_shutdowns = 1
    /\ Alive

\* The executor will poll the suspended loop again.
WakePending == dbus_mpris_server \/ \E src \in log.parked : SourceReady(src)

\* C3: once the ctrl-c branch has requested shutdown of a held Spirc
\* (shutting_down is true), the loop eventually returns Ready, given that a
\* spirc task whose Spirc was asked to shut down completes and that the loop
\* is polled again when a source it is parked on becomes ready.  On states:
\* while shutting_down, the loop has returned Ready, or a step those
\* assumptions guarantee is still to come (the loop is inside poll(), a wake
\* is pending, or the held task was asked to shut down and has yet to
\* complete).  A state with none of these can last forever.  A poll error
\* aborts the process and is not counted against the claim.
InterruptLeadsToTermination ==
    shutting_down =>
        \/ status \in {"done", "running", "aborted"}
        \/ WakePending
        \/ HeldShutdowns > 0 /\ spirc_task \notin finished

\* C4: at most one hook process is live at any instant; a pass takes an
\* event from the channel (and spawns) only when, after the exit check, no
\* child is stored.
AtMostOneHookProcess ==
    /\ Cardinality(live_procs) <= 1
    /\ log.event # 0 => log.try_wait # "OkNone"

\* Strictly increasing: events are numbered in the order the player emits them.
InArrivalOrder(events) ==
    \A i, j \in 1..Len(events) : i < j => events[i] < events[j]

\* C5: the events passed to spawned processes are exactly the events taken
\* from the channel, in the same (arrival) order, one spawn per event, when a
\* hook program is configured; with none configured nothing is spawned.
HookDispatchInOrder ==
    /\ InArrivalOrder(retrieved)
    /\ player_event_program => spawned = retrieved
    /\ ~player_event_program => spawned = <<>>
    /\ running_event_program # 0 =>
           /\ spawned # <<>>
           /\ running_event_program = spawned[Len(spawned)]

\* C5 witness: two events were taken and a process was spawned for each.
TwoEventsDispatched ==
    /\ player_event_program
    /\ Len(spawned) = 2
    /\ Len(retrieved) = 2

\* The latest pass took a credential set, and the connect future is the
\* connect started with it, the only one outstanding.
CredsReplaceConnect ==
    log.creds # 0 =>
        /\ connection.creds = log.creds
        /\ connection.state # "empty"
        /\ live_connects = {log.creds}
        /\ last_creds = log.creds

\* C6 as stated: at most one connect operation is outstanding, a credential
\* set taken from the stream replaces the connect future, and every wired
\* session comes from the latest credential set taken from the stream.
LastTakenCredsAreWired ==
    /\ Cardinality(live_connects) <= 1
    /\ CredsReplaceConnect
    /\ \A h \in 1..Len(wired) : wired[h] \in 1..last_creds
    /\ log.branch = "connect" => wired[Len(wired)] = last_creds

\* C6 amended: as C6, but a session wired before any credential set was taken
\* (last_creds = 0) comes from the connect future given to
\* LibreSpotConnection::new (credentials 0).
LatestConnectIsWired ==
    /\ Cardinality(live_connects) <= 1
    /\ live_connects =
           IF connection.state = "empty" THEN {} ELSE {connection.creds}
    /\ CredsReplaceConnect
    /\ \A h \in 1..Len(wired) : wired[h] \in 0..last_creds
    /\ log.branch = "connect" => wired[Len(wired)] = last_creds

\* C6 witness: a credential set was taken, its connect resolved and the
\* latest pass wired the session from it.
TakenCredsWired ==
    /\ log.branch = "connect"
    /\ last_creds = 1
    /\ wired[Len(wired)] = 1
    /\ connection = EmptyFuture

\* C7: a pass that takes a credential set while a Spirc is held first asks
\* that Spirc to shut down and then starts the connect with the new
\* credentials; with no Spirc held it starts the connect and the pass issues
\* no shutdown request.
NewCredsShutDownHeldSpirc ==
    log.creds # 0 =>
        IF log.spirc0 # 0
        THEN /\ Len(log.effects) >= 2
             /\ log.effects[1] = Effect("shutdown", log.spirc0)
             /\ log.effects[2] = Effect("connect", log.creds)
             /\ spirc_shutdowns.credentials = log.shutdowns0.credentials + 1
             /\ connection.creds = log.creds
        ELSE /\ log.effects = <<Effect("connect", log.creds)>>
             /\ log.shutdown_by = {}
             /\ spirc_shutdowns = log.shutdowns0
             /\ connection.creds = log.creds

\* C7 witness: the latest pass took credentials while a Spirc was held and no
\* interrupt had been taken; the Spirc was asked to shut down.
CredsTakenWhileHeld ==
    /\ log.creds # 0
    /\ log.spirc0 # 0
    /\ ~shutting_down
    /\ spirc_shutdowns.credentials = 1
    /\ connection = SessionConnect(log.creds)

\* C8: the Spirc handle is held exactly when its task is, and they belong
\* together; wiring replaces both by a new pair, and a pair that is replaced
\* had been asked to shut down; no other pass changes the pair.
OneSpircPair ==
    /\ spirc = spirc_task
    /\ spirc = Len(wired)
    /\ IF log.branch = "connect"
       THEN /\ spirc # log.spirc0
            /\ spirc_task # log.task0
            /\ log.spirc0 # 0 => Requests(log.shutdowns0) >= 1
       ELSE /\ spirc = log.spirc0
            /\ spirc_task = log.task0

\* C8 witness: the latest pass replaced a held pair by a new one.
PairReplaced ==
    /\ log.branch = "connect"
    /\ log.spirc0 = 1
    /\ spirc = 2
    /\ spirc_task = 2

\* C9: a pass that takes an interrupt notification when no session was ever
\* wired returns Ready and issues no shutdown request.
InterruptBeforeSessionTerminates ==
    (log.branch = "ctrl_c" /\ wired = <<>>) =>
        /\ status = "done"
        /\ ShutdownsIn(log) = <<>>
        /\ ctrl_c_shutdowns = 0
        /\ ~shutting_down

\* C9 witness: the loop returned Ready on an interrupt with no session wired.
QuitWithoutSession ==
    /\ status = "done"
    /\ log.branch = "ctrl_c"
    /\ wired = <<>>
    /\ ctrl_c_shutdowns = 0

\* C10: a pass returns Ready only from the ctrl-c branch with no Spirc held
\* and shutting_down false, or from the branch that finds the held spirc task
\* complete; a pass that wires a session continues the loop; the loop's
\* results are Ready, NotReady, or none (abort), never an error value.
CompletesOnlyByInterruptOrTask ==
    /\ status \in {"running", "suspended", "done", "aborted"}
    /\ status = "done" =>
           \/ /\ log.branch = "ctrl_c"
              /\ log.spirc0 = 0
              /\ ~log.shutting_down0
           \/ /\ log.branch = "spirc_task"
              /\ log.task0 # 0
              /\ log.task0 \in finished
    /\ log.branch \in {"ctrl_c", "spirc_task"} /\ status # "done" =>
           /\ log.branch = "ctrl_c"
           /\ status = "running"
           /\ log.spirc0 # 0 \/ log.shutting_down0
    /\ log.branch = "connect" => status = "running"
    /\ log.branch = "panic" <=> status = "aborted"
    /\ log.branch = "not_ready" => status = "suspended"
    /\ log.branch = "none" => status \in {"running", "suspended"}

\* C10 witness: the loop returned Ready because the held spirc task completed.
QuitOnTaskCompletion ==
    /\ status = "done"
    /\ log.branch = "spirc_task"
    /\ spirc_task # 0
    /\ spirc_task \in finished

\* The pass record without the outcome the control server's poll returned.
WithoutOutcome(s) == [s EXCEPT !.log.dbus = "none"]

\* C11: the outcome of polling the control server (ready, not ready, error)
\* never influences the loop: from every state, passes that poll the server
\* and differ only in that outcome end with the same fields, the same branch
\* and the same result, and a pass aborts only where a poll of another source
\* failed.
ControlServerOutcomeIgnored ==
    /\ (status = "running" /\ log.branch = "none" /\ dbus_mpris_server) =>
           \A err \in ErrInputs, fail \in TryWaitInputs :
               LET pending == LoopBody(Cur, err, fail, "not_ready")
               IN  pending.log.dbus # "none" =>
                       \A outcome \in {"ready", "err"} :
                           WithoutOutcome(LoopBody(Cur, err, fail, outcome)) =
                               WithoutOutcome(pending)
    /\ status = "aborted" => log.polled[Len(log.polled)] # "dbus"
    /\ log.dbus # "none" <=> \E i \in 1..Len(log.polled) : log.polled[i] = "dbus"

\* C11 witness: the control server returned Err in the latest pass and the
\* loop went on to suspend.
ControlServerErrorIgnored ==
    /\ log.dbus = "err"
    /\ log.branch = "not_ready"
    /\ status = "suspended"

\* The source polled last in the latest pass.
LastPolled == log.polled[Len(log.polled)]

\* The effects of the latest pass of one kind.
EffectsOf(op) == {i \in 1..Len(log.effects) : log.effects[i].op = op}

\* C12: an Err from a poll of the credential source, the connect operation,
\* the event channel, the ctrl-c stream or the spirc task aborts the process
\* at that poll: the poll is the last thing the pass does (what follows it in
\* the loop body has not happened), no shutdown request follows it, and the
\* loop returns neither Ready nor NotReady.
PollErrorAborts ==
    /\ status = "aborted" <=> log.branch = "panic"
    /\ log.branch = "panic" =>
           /\ LastPolled \in Sources
           /\ LastPolled \notin log.parked
           /\ EffectsOf("wire") = {}
           /\ "ctrl_c" \notin log.shutdown_by
           /\ shutting_down = log.shutting_down0
           /\ spirc = log.spirc0
           /\ spirc_task = log.task0
           /\ spirc_shutdowns.ctrl_c = log.shutdowns0.ctrl_c
           /\ LastPolled = "discovery" =>
                  /\ log.polled = <<"discovery">>
                  /\ log.creds = 0
                  /\ log.effects = <<>>
                  /\ log.shutdown_by = {}
                  /\ spirc_shutdowns = log.shutdowns0
                  /\ log.try_wait = "none"
                  /\ running_event_program = log.child0
           /\ LastPolled \in {"discovery", "events"} =>
                  /\ log.event = 0
                  /\ EffectsOf("spawn") = {}
                  /\ log.dbus = "none"
                  /\ log.parked \subseteq {"discovery"}
           /\ LastPolled = "connection" => log.parked \subseteq {"discovery", "events"}
           /\ LastPolled = "ctrl_c" => "spirc_task" \notin log.parked

\* C12 witness: the pass took a credential set while a Spirc was held, and
\* the poll of the ctrl-c stream then failed.
AbortedAtCtrlC ==
    /\ status = "aborted"
    /\ LastPolled = "ctrl_c"
    /\ log.creds # 0
    /\ log.spirc0 # 0

\* C13: the loop suspends (returns NotReady) only in a pass in which no
\* source made progress: no credential set taken, no hook process reaped or
\* spawned, no event retrieved, connect not ready, no interrupt notification,
\* spirc task not complete.
SuspendsOnlyWithoutProgress ==
    log.branch = "not_ready" =>
        /\ status = "suspended"
        /\ {"connection", "ctrl_c"} \subseteq log.parked
        /\ spirc_task # 0 => "spirc_task" \in log.parked
        /\ log.creds = 0
        /\ log.try_wait # "OkSome"
        /\ log.event = 0
        /\ EffectsOf("spawn") = {}

\* The events for which a hook process has been spawned.
Spawned == {spawned[i] : i \in 1..Len(spawned)}

\* C14: with a hook program configured, every emitted playback event
\* eventually gets its process spawned, given that every spawned process
\* exits and that the loop is polled again when a source it is parked on
\* becomes ready.  On states: for every emitted event, its process has been
\* spawned, or a step those assumptions guarantee is still to come (the loop
\* is inside poll(), a wake is pending, or the stored process has yet to
\* exit).  A state with none of these can last forever.  A loop that has
\* returned Ready or aborted is not counted against the claim.
EveryEventSpawned ==
    (player_event_program /\ Alive) =>
        \A e \in 1..emitted :
            \/ e \in Spawned
            \/ status = "running"
            \/ WakePending
            \/ running_event_program # 0 /\ running_event_program \in live_procs

\* C15: the stored hook process handle is cleared only when the exit check
\* confirms that the process has exited; when the check reports it still
\* running, or fails, the handle is kept and no process is spawned in that
\* pass.
HandleClearedOnlyOnExit ==
    log.try_wait \in {"OkNone", "Err"} =>
        /\ running_event_program = log.child0
        /\ log.event = 0
        /\ EffectsOf("spawn") = {}

\* The sources polled in the latest pass.
PolledSet == {log.polled[i] : i \in 1..Len(log.polled)}

\* C16: one branch per pass, in the priority connect ready > ctrl-c >
\* spirc task complete > suspend: a pass that wires polls neither the ctrl-c
\* stream nor the spirc task; a pass that takes an interrupt notification
\* found the connect not ready and does not poll the spirc task; a pass that
\* finds the task complete or suspends found the earlier sources not ready.
\* Hence a pass that finds the connect resolved and a notification waiting,
\* with no Spirc held, wires and continues with the notification still
\* waiting, and the pass that takes a notification after a session was wired
\* asks the held Spirc to shut down (unless shutting_down) and goes on.
BranchPriority ==
    /\ log.branch = "connect" =>
           /\ PolledSet \cap {"ctrl_c", "spirc_task"} = {}
           /\ "connection" \in PolledSet \ log.parked
           /\ status = "running"
           /\ ~shutting_down => spirc_shutdowns = NoShutdowns
    /\ log.branch = "ctrl_c" =>
           /\ "spirc_task" \notin PolledSet
           /\ "connection" \in log.parked
           /\ "ctrl_c" \in PolledSet \ log.parked
           /\ EffectsOf("wire") = {}
           /\ wired # <<>> =>
                  /\ status = "running"
                  /\ shutting_down
                  /\ ~log.shutting_down0 =>
                         log.effects[Len(log.effects)] = Effect("shutdown", spirc)
    /\ log.branch = "spirc_task" =>
           /\ {"connection", "ctrl_c"} \subseteq log.parked
           /\ "spirc_task" \in PolledSet \ log.parked
    /\ log.branch = "not_ready" => {"connection", "ctrl_c"} \subseteq log.parked

\* C16 witness: with an interrupt notification waiting and no Spirc held, the
\* latest pass wired the session and left the notification in the stream.
WiredBeforeInterrupt ==
    /\ log.branch = "connect"
    /\ log.spirc0 = 0
    /\ ctrl_c_stream > 0
    /\ spirc = 1
    /\ ~shutting_down

\* C17: each resolved connect is wired exactly once: wiring replaces the
\* connect future by the never-ready placeholder and the loop goes on to the
\* next pass instead of suspending; the connect-ready branch fires again only
\* for a connect started from a credential set taken since, so no connect is
\* wired twice and there are at most as many wirings as connects started.
ResolvedConnectWiredOnce ==
    /\ log.branch = "connect" =>
           /\ connection = EmptyFuture
           /\ live_connects = {}
           /\ log.creds = 0
           /\ status = "running"
    /\ \A i, j \in 1..Len(wired) : i < j => wired[i] < wired[j]
    /\ connection.state # "empty" =>
           \A i \in 1..Len(wired) : wired[i] < connection.creds
    /\ wired # <<>> => wired[Len(wired)] <= last_creds

\* C17 witness: after a wiring a credential set was taken, its connect
\* resolved, and the latest pass wired it.
WiredAgainAfterNewCreds ==
    /\ log.branch = "connect"
    /\ Len(wired) = 2
    /\ wired[2] = last_creds
    /\ connection = EmptyFuture

\* C18: with no interrupt notification ever delivered, new credentials
\* arriving while a session is active never make the loop terminate: once
\* the held Spirc was shut down by the credential step, the loop does not
\* return Ready before the new connect is wired, whether the old spirc task
\* completes before or after the connect resolves.  (A pass that starts with
\* the held Spirc already shut down by the credential step follows a pass
\* that found its task not complete.)
NewCredsNeverTerminate ==
    (interrupts = 0 /\ log.shutdowns0.credentials > 0) => status # "done"

\* C19: shutting_down implies that a Spirc handle is held; once a handle is
\* held the loop never goes back to holding none; hence the ctrl-c branch
\* returns Ready only before the first session was wired.
HandleHeldOnceWired ==
    /\ shutting_down => spirc # 0
    /\ log.spirc0 # 0 => spirc # 0
    /\ spirc # 0 <=> wired # <<>>
    /\ (status = "done" /\ log.branch = "ctrl_c") =>
           /\ wired = <<>>
           /\ log.spirc0 = 0
           /\ ~shutting_down

\* C19 witness: shutting_down is true and the latest pass replaced the held
\* handle by a new one.
ShuttingDownAcrossRewiring ==
    /\ shutting_down
    /\ log.branch = "connect"
    /\ log.spirc0 = 1
    /\ spirc = 2

====
